---- MODULE Spec2Model ----
(***************************************************************************)
(* Model of the odds calculator of nacharki/Optimal_path_solution:         *)
(*   src/Millennium-falcon-solution/Galaxy.py  (class MillenniumFalcon)     *)
(*   src/Giskard-solution/Galaxy.py            (class Millennium_falcon)    *)
(* One run of the model is one call of give_me_the_odds on an object built  *)
(* from the inputs chosen in Init.  The variable impl says which of the two *)
(* implementations runs; they differ in the rest marker and in the          *)
(* identifier given to a rest variant.                                      *)
(*                                                                         *)
(* Floats are modelled as exact fractions <<numerator, denominator>>.       *)
(***************************************************************************)
EXTENDS Integers, Sequences, FiniteSets, TLC

VARIABLES impl, routes, autonomy, departure, arrival, countdown, bounty_hunters,
          pc, paths, feasible_paths, acceptable_paths, alternative_paths,
          alt_pos, all_paths, k_table, result

vars == <<impl, routes, autonomy, departure, arrival, countdown, bounty_hunters,
          pc, paths, feasible_paths, acceptable_paths, alternative_paths,
          alt_pos, all_paths, k_table, result>>

inputs == <<impl, routes, autonomy, departure, arrival, countdown, bounty_hunters>>

(***************************************************************************)
(* Bounds of the explored inputs.                                          *)
(***************************************************************************)
MaxTime == 2
MaxCountdown == 4
MaxHunters == 2

(***************************************************************************)
(* Helpers on sequences.                                                   *)
(***************************************************************************)
Range(s) == {s[i] : i \in 1..Len(s)}

Last(s) == s[Len(s)]

\* list.insert(pos, x) of Python, pos a 0-based index with 0 <= pos <= len
ListInsert(s, pos, x) == SubSeq(s, 1, pos) \o <<x>> \o SubSeq(s, pos + 1, Len(s))

\* every ordering of a finite set: the iteration orders a Python set can show
Orders(S) == {o \in [1..Cardinality(S) -> S] : \A i, j \in 1..Cardinality(S) : o[i] = o[j] => i = j}

(***************************************************************************)
(* create_graph: an undirected graph with insertion-ordered adjacency, as   *)
(* networkx.Graph keeps it; a repeated edge keeps its place and takes the   *)
(* last distance.                                                          *)
(***************************************************************************)
EmptyGraph == [nodes |-> {}, adj |-> <<>>, distance |-> <<>>]

AdjOf(G, n) == IF n \in G.nodes THEN G.adj[n] ELSE <<>>

AddNeighbour(G, u, v) == IF v \in Range(AdjOf(G, u)) THEN AdjOf(G, u) ELSE Append(AdjOf(G, u), v)

add_edge(G, row) ==
    LET u == row.origin
        v == row.destination
        adjU == AddNeighbour(G, u, v)
        G1 == [nodes |-> G.nodes \cup {u}, adj |-> (u :> adjU) @@ G.adj, distance |-> G.distance]
        adjV == AddNeighbour(G1, v, u)
    IN  [nodes |-> G1.nodes \cup {v},
         adj |-> (v :> adjV) @@ G1.adj,
         distance |-> (<<u, v>> :> row.travel_time) @@ (<<v, u>> :> row.travel_time) @@ G.distance]

RECURSIVE AddRoutes(_, _, _)
AddRoutes(G, rows, i) ==
    IF i > Len(rows) THEN G ELSE AddRoutes(add_edge(G, rows[i]), rows, i + 1)

create_graph(rows) == AddRoutes(EmptyGraph, rows, 1)

(***************************************************************************)
(* all_simple_paths: depth-first, children in adjacency order; a path ends  *)
(* at the first visit of the target.                                       *)
(***************************************************************************)
RECURSIVE SimplePathsFrom(_, _, _, _)
SimplePathsFrom(G, visited, target, c) ==
    LET children == G.adj[Last(visited)]
    IN  IF c > Len(children) THEN <<>>
        ELSE LET child == children[c]
                 here == IF child \in Range(visited) THEN <<>>
                         ELSE IF child = target THEN <<Append(visited, child)>>
                         ELSE SimplePathsFrom(G, Append(visited, child), target, 1)
             IN  here \o SimplePathsFrom(G, visited, target, c + 1)

all_simple_paths(G, source, target) == SimplePathsFrom(G, <<source>>, target, 1)

NodeNotFound(G, source, target) == source \notin G.nodes \/ target \notin G.nodes

(***************************************************************************)
(* find_feasible_paths: the walk of one enumerated path.                   *)
(***************************************************************************)
\* faulty variant: the hop is measured against the autonomy left
HopTakenOnRemaining(travel_time, max_autonomy, current_autonomy) == travel_time <= current_autonomy

HopTaken(travel_time, max_autonomy, current_autonomy) == travel_time <= max_autonomy

\* faulty variant: the hop is taken off the autonomy left
AutonomyAfterHopOfRemaining(travel_time, max_autonomy, current_autonomy) == current_autonomy - travel_time

AutonomyAfterHop(travel_time, max_autonomy, current_autonomy) == max_autonomy - travel_time

MustRefuel(current_autonomy) == current_autonomy = 0

\* one iteration of the inner loop; w is the walk state
WalkHop(G, w, current, next_stop, max_autonomy) ==
    LET travel_time == G.distance[<<current, next_stop>>]
    IN  IF HopTaken(travel_time, max_autonomy, w.current_autonomy)
        THEN LET td == w.travel_days + travel_time
                 left == AutonomyAfterHop(travel_time, max_autonomy, w.current_autonomy)
             IN  IF MustRefuel(left)
                 THEN [current_autonomy |-> max_autonomy,
                       travel_days |-> td + 1,
                       stops |-> w.stops \o <<next_stop, next_stop>>,
                       days |-> w.days \o <<td, td + 1>>]
                 ELSE [current_autonomy |-> left,
                       travel_days |-> td,
                       stops |-> Append(w.stops, next_stop),
                       days |-> Append(w.days, td)]
        ELSE w

RECURSIVE Walk(_, _, _, _, _)
Walk(G, path, i, w, max_autonomy) ==
    IF i >= Len(path) THEN w
    ELSE Walk(G, path, i + 1, WalkHop(G, w, path[i], path[i + 1], max_autonomy), max_autonomy)

WalkStart(dep, max_autonomy) ==
    [current_autonomy |-> max_autonomy, travel_days |-> 0, stops |-> <<dep>>, days |-> <<0>>]

PathKey(idx) == "path_" \o ToString(idx)

\* a dict is a sequence of entries in insertion order; assigning an existing
\* key replaces the value and keeps the entry's place
DictKeys(d) == {d[i].key : i \in 1..Len(d)}

DictPut(d, e) ==
    IF e.key \in DictKeys(d)
    THEN [i \in 1..Len(d) |-> IF d[i].key = e.key THEN e ELSE d[i]]
    ELSE Append(d, e)

RECURSIVE DictMerge(_, _, _)
DictMerge(d, more, i) ==
    IF i > Len(more) THEN d ELSE DictMerge(DictPut(d, more[i]), more, i + 1)

Itinerary(G, path, idx, dep, max_autonomy) ==
    LET w == Walk(G, path, 1, WalkStart(dep, max_autonomy), max_autonomy)
    IN  [key |-> PathKey(idx), stops |-> w.stops, days |-> w.days]

RECURSIVE FeasibleFrom(_, _, _, _, _, _)
FeasibleFrom(G, ps, idx, dep, max_autonomy, acc) ==
    IF idx > Len(ps) THEN acc
    ELSE FeasibleFrom(G, ps, idx + 1, dep, max_autonomy,
                      DictPut(acc, Itinerary(G, ps[idx], idx, dep, max_autonomy)))

find_feasible_paths(ps, G, dep, max_autonomy) == FeasibleFrom(G, ps, 1, dep, max_autonomy, <<>>)

(***************************************************************************)
(* give_me_the_odds, lines 153-157: the itineraries that meet the deadline. *)
(***************************************************************************)
\* faulty variant: arriving on the countdown day is too late
ValidDayStrict(day, cd) == Last(day) < cd

ValidDay(day, cd) == Last(day) <= cd

valid_paths(feasible, cd) == SelectSeq(feasible, LAMBDA e : ValidDay(e.days, cd))

(***************************************************************************)
(* find_acceptable_paths: the deadline filter.                             *)
(***************************************************************************)
MeetsCountdown(e, cd) == Last(e.days) <= cd

find_acceptable_paths(feasible, cd) == SelectSeq(feasible, LAMBDA e : MeetsCountdown(e, cd))

(***************************************************************************)
(* find_alternative_paths: the rest variants of one accepted itinerary.    *)
(***************************************************************************)
RECURSIVE Repeat(_, _)
Repeat(str, n) == IF n <= 0 THEN "" ELSE str \o Repeat(str, n - 1)

\* f"{stop}*{rest}" in the Millennium-falcon solution, stop*rest in Giskard's
RestMarker(im, stop, rest) ==
    IF im = "MillenniumFalcon" THEN stop \o "*" \o ToString(rest) ELSE Repeat(stop, rest)

\* f"{key}_{idx + 1}" in the Millennium-falcon solution, key+str(idx+1) in Giskard's
VariantKey(im, key, idx) ==
    IF im = "MillenniumFalcon" THEN key \o "_" \o ToString(idx + 1) ELSE key \o ToString(idx + 1)

\* faulty variant: a rest is tried without a day to spare
CanRestNoSlack(e, cd) == cd - Last(e.days) >= 0

CanRest(e, cd) == cd - Last(e.days) >= 1

\* the days after an insertion at 0-based idx + 1: day_copy[idx] + 1 goes in,
\* every entry from idx + 2 on is one later
RestDays(day, idx) ==
    LET day_copy == ListInsert(day, idx + 1, day[idx + 1] + 1)
    IN  [i \in 1..Len(day_copy) |-> IF i - 1 >= idx + 2 THEN day_copy[i] + 1 ELSE day_copy[i]]

\* faulty variant: the marker goes in at idx, not idx + 1
RestStopsAtIdx(im, path, idx, stop) == ListInsert(path, idx, RestMarker(im, stop, 1))

RestStops(im, path, idx, stop) == ListInsert(path, idx + 1, RestMarker(im, stop, 1))

RestVariant(im, e, idx, stop) ==
    [key |-> VariantKey(im, e.key, idx),
     stops |-> RestStops(im, e.stops, idx, stop),
     days |-> RestDays(e.days, idx)]

\* faulty variant: set(path), the final stop included
UniqueStopsAll(path) == Range(path)

\* set(path[:-1])
UniqueStops(path) == Range(SubSeq(path, 1, Len(path) - 1))

RECURSIVE AddVariants(_, _, _, _, _)
AddVariants(im, e, order, i, acc) ==
    IF i > Len(order) THEN acc
    ELSE AddVariants(im, e, order, i + 1, DictPut(acc, RestVariant(im, e, i - 1, order[i])))

(***************************************************************************)
(* give_me_the_odds: encounter counts and the odds.                        *)
(***************************************************************************)
RECURSIVE CountHunters(_, _, _, _)
CountHunters(stop, day, hunters, j) ==
    IF j > Len(hunters) THEN 0
    ELSE (IF hunters[j].planet = stop /\ hunters[j].day = day THEN 1 ELSE 0)
         + CountHunters(stop, day, hunters, j + 1)

RECURSIVE CountEncounters(_, _, _, _)
CountEncounters(path, days, hunters, i) ==
    IF i > Len(path) THEN 0
    ELSE CountHunters(path[i], days[i], hunters, 1) + CountEncounters(path, days, hunters, i + 1)

Encounters(e, hunters) == CountEncounters(e.stops, e.days, hunters, 1)

RECURSIVE MinOf(_, _)
MinOf(s, i) ==
    IF i = Len(s) THEN s[i]
    ELSE LET m == MinOf(s, i + 1) IN IF s[i] <= m THEN s[i] ELSE m

\* list.index(x): the first position holding x
IndexOf(s, x) == CHOOSE i \in 1..Len(s) : s[i] = x /\ \A j \in 1..(i - 1) : s[j] # x

\* exact fractions in lowest terms
RECURSIVE Gcd(_, _)
Gcd(a, b) == IF b = 0 THEN a ELSE Gcd(b, a % b)

Frac(n, d) == <<n \div Gcd(n, d), d \div Gcd(n, d)>>

FracAdd(a, b) == Frac(a[1] * b[2] + b[1] * a[2], a[2] * b[2])

RECURSIVE Pow(_, _)
Pow(b, n) == IF n = 0 THEN 1 ELSE b * Pow(b, n - 1)

\* faulty variant: 9**i / 10**i
CaptureTermShifted(i) == Frac(Pow(9, i), Pow(10, i))

CaptureTerm(i) == Frac(Pow(9, i), Pow(10, i + 1))

RECURSIVE CaptureProb(_, _, _)
CaptureProb(prob, i, k) ==
    IF i >= k THEN prob ELSE CaptureProb(FracAdd(prob, CaptureTerm(i)), i + 1, k)

\* 100 * (1 - prob)
OddsFromProb(prob) == Frac(100 * (prob[2] - prob[1]), prob[2])

Odds(k) == IF k > 0 THEN OddsFromProb(CaptureProb(<<1, 10>>, 1, k)) ELSE <<100, 1>>

OptimalPath(pool, ks) == pool[IndexOf(ks, MinOf(ks, 1))].stops

\* return 0, []
NoResult == [odds |-> <<0, 1>>, path |-> <<>>, raised |-> FALSE]

\* nothing returned yet: no odds at all
Pending == [odds |-> <<0, 0>>, path |-> <<>>, raised |-> FALSE]

(***************************************************************************)
(* The explored inputs.                                                    *)
(***************************************************************************)
Route(o, d, t) == [origin |-> o, destination |-> d, travel_time |-> t]

Hunter(p, d) == [planet |-> p, day |-> d]

Present(rows) == SelectSeq(rows, LAMBDA r : r.travel_time > 0)

Implementations == {"MillenniumFalcon", "Giskard"}

Planets == <<"Tatooine", "Dagobah", "Endor">>

HunterDays == <<1, 2>>

\* the sightings a list is drawn from, in a fixed order
Sightings(planets, days) ==
    [i \in 1..(Len(planets) * Len(days)) |->
        Hunter(planets[((i - 1) \div Len(days)) + 1], days[((i - 1) % Len(days)) + 1])]

\* lists of at most MaxHunters sightings, duplicates included; the order of the
\* list does not change a count, so one order of each list is explored
HunterLists(cells) ==
    UNION {{[i \in 1..n |-> cells[f[i]]] :
              f \in {g \in [1..n -> 1..Len(cells)] : \A i \in 1..(n - 1) : g[i] <= g[i + 1]}} :
           n \in 0..MaxHunters}

\* three planets, every route present or not, every travel time up to MaxTime
InitSmall ==
    /\ \E a, b, c \in 0..MaxTime :
          routes = Present(<<Route("Tatooine", "Dagobah", a), Route("Dagobah", "Endor", b),
                             Route("Tatooine", "Endor", c)>>)
    /\ autonomy \in 1..(MaxTime + 1)
    /\ countdown \in 0..MaxCountdown
    /\ bounty_hunters \in HunterLists(Sightings(Planets, HunterDays))

\* five planets, every pair joined: sixteen simple paths, of which only the
\* first (Tatooine, Endor) and the eleventh (Tatooine, Hoth, Endor) can meet
\* the countdown; no hop is longer than the autonomy
InitMany ==
    /\ \E a, b, c \in 1..MaxTime :
          LET far == MaxCountdown + 1
          IN  routes = <<Route("Tatooine", "Endor", a), Route("Tatooine", "Dagobah", far),
                         Route("Tatooine", "Hoth", b), Route("Tatooine", "Alderaan", far),
                         Route("Dagobah", "Hoth", far), Route("Dagobah", "Alderaan", far),
                         Route("Hoth", "Alderaan", far), Route("Dagobah", "Endor", far),
                         Route("Hoth", "Endor", c), Route("Alderaan", "Endor", far)>>
    /\ autonomy = MaxCountdown + 2
    /\ countdown \in 0..MaxCountdown
    /\ bounty_hunters \in HunterLists(Sightings(<<"Tatooine", "Endor">>, HunterDays))

\* four planets in two pairs: both endpoints are nodes, no path joins them
InitApart ==
    /\ \E a, b \in 1..MaxTime :
          routes = <<Route("Tatooine", "Dagobah", a), Route("Hoth", "Endor", b)>>
    /\ autonomy \in 1..(MaxTime + 1)
    /\ countdown \in 0..MaxCountdown
    /\ bounty_hunters \in HunterLists(<<Hunter("Endor", 1)>>)

\* scenarios A and B of the specification: one route of six days, autonomy six
InitScenario ==
    /\ routes = <<Route("Tatooine", "Endor", 6)>>
    /\ autonomy = 6
    /\ countdown \in {1, 6, 7, 8}
    /\ bounty_hunters \in HunterLists(<<Hunter("Endor", 6)>>)

Init ==
    /\ impl \in Implementations
    /\ departure = "Tatooine"
    /\ arrival = "Endor"
    /\ (InitSmall \/ InitMany \/ InitApart \/ InitScenario)
    /\ pc = "find_feasible_paths"
    /\ paths = <<>>
    /\ feasible_paths = <<>>
    /\ acceptable_paths = <<>>
    /\ alternative_paths = <<>>
    /\ alt_pos = 0
    /\ all_paths = <<>>
    /\ k_table = <<>>
    /\ result = Pending

(***************************************************************************)
(* The steps of give_me_the_odds.                                          *)
(***************************************************************************)
\* line 152 (Giskard 113): the graph, its simple paths, their itineraries;
\* networkx raises NodeNotFound when an endpoint is no node of the graph
FindFeasiblePaths ==
    /\ pc = "find_feasible_paths"
    /\ LET G == create_graph(routes)
       IN  IF NodeNotFound(G, departure, arrival)
           THEN /\ pc' = "raised"
                /\ result' = [Pending EXCEPT !.raised = TRUE]
                /\ UNCHANGED <<paths, feasible_paths>>
           ELSE /\ paths' = all_simple_paths(G, departure, arrival)
                /\ feasible_paths' = find_feasible_paths(paths', G, departure, autonomy)
                /\ pc' = "valid_paths"
                /\ UNCHANGED result
    /\ UNCHANGED <<inputs, acceptable_paths, alternative_paths, alt_pos, all_paths, k_table>>

\* lines 153-160 (Giskard 115-118)
CheckValidPaths ==
    /\ pc = "valid_paths"
    /\ IF valid_paths(feasible_paths, countdown) = <<>>
       THEN /\ result' = NoResult
            /\ pc' = "done"
       ELSE /\ pc' = "find_acceptable_paths"
            /\ UNCHANGED result
    /\ UNCHANGED <<inputs, paths, feasible_paths, acceptable_paths, alternative_paths, alt_pos,
                   all_paths, k_table>>

\* line 162 (Giskard 121)
FindAcceptablePaths ==
    /\ pc = "find_acceptable_paths"
    /\ acceptable_paths' = find_acceptable_paths(feasible_paths, countdown)
    /\ alt_pos' = 1
    /\ pc' = "find_alternative_paths"
    /\ UNCHANGED <<inputs, paths, feasible_paths, alternative_paths, all_paths, k_table, result>>

\* line 163 (Giskard 122): one accepted itinerary per step; the set of its
\* stops is iterated in an order the program does not control
FindAlternativePaths ==
    /\ pc = "find_alternative_paths"
    /\ alt_pos <= Len(acceptable_paths)
    /\ LET e == acceptable_paths[alt_pos]
       IN  IF CanRest(e, countdown)
           THEN \E order \in Orders(UniqueStops(e.stops)) :
                    alternative_paths' = AddVariants(impl, e, order, 1, alternative_paths)
           ELSE UNCHANGED alternative_paths
    /\ alt_pos' = alt_pos + 1
    /\ UNCHANGED <<inputs, pc, paths, feasible_paths, acceptable_paths, all_paths, k_table, result>>

\* lines 164-193 (Giskard 125-150)
Score ==
    /\ pc = "find_alternative_paths"
    /\ alt_pos > Len(acceptable_paths)
    /\ all_paths' = DictMerge(acceptable_paths, alternative_paths, 1)
    /\ k_table' = [i \in 1..Len(all_paths') |-> Encounters(all_paths'[i], bounty_hunters)]
    /\ result' = [odds |-> Odds(MinOf(k_table', 1)),
                  path |-> OptimalPath(all_paths', k_table'),
                  raised |-> FALSE]
    /\ pc' = "done"
    /\ UNCHANGED <<inputs, paths, feasible_paths, acceptable_paths, alternative_paths, alt_pos>>

Next == FindFeasiblePaths \/ CheckValidPaths \/ FindAcceptablePaths \/ FindAlternativePaths \/ Score

Spec == Init /\ [][Next]_vars

(***************************************************************************)
(* Vocabulary of the properties.                                           *)
(***************************************************************************)
Returned == pc = "done"

\* give_me_the_odds went past the early return and scored a pool
Scored == pc = "done" /\ all_paths # <<>>

\* the travel time of the route joining u and v, read from the route table
RouteTime(u, v) ==
    CHOOSE t \in {routes[i].travel_time :
                    i \in {k \in 1..Len(routes) : {routes[k].origin, routes[k].destination} = {u, v}}} :
        TRUE

\* the number of (position, sighting) pairs of an itinerary that match
EncounterPairs(e) ==
    Cardinality({ij \in (1..Len(e.stops)) \X (1..Len(bounty_hunters)) :
                    /\ bounty_hunters[ij[2]].planet = e.stops[ij[1]]
                    /\ bounty_hunters[ij[2]].day = e.days[ij[1]]})

NonDecreasing(s) == \A i \in 1..(Len(s) - 1) : s[i] <= s[i + 1]

\* the position of the last forced refuel at or before position j of a base
\* itinerary (a stop repeated from the position before), or the departure
LastRefuel(e, j) ==
    CHOOSE r \in 1..j : /\ (r = 1 \/ e.stops[r] = e.stops[r - 1])
                        /\ \A q \in (r + 1)..j : e.stops[q] # e.stops[q - 1]

(***************************************************************************)
(* C1: give_me_the_odds returns exactly (0, []) when no simulated itinerary *)
(* has a last day <= countdown (also when the graph holds both endpoints    *)
(* and no path joins them), and a non-empty path in every other case.       *)
(***************************************************************************)
NoItineraryInTime == \A i \in 1..Len(feasible_paths) : Last(feasible_paths[i].days) > countdown

C1_ZeroOddsIffNothingInTime ==
    Returned =>
        /\ NoItineraryInTime => (result.odds = <<0, 1>> /\ result.path = <<>>)
        /\ ~NoItineraryInTime => result.path # <<>>

\* both endpoints are nodes, nothing joins them, and the call returned
C1_Witness ==
    /\ Returned
    /\ paths = <<>>
    /\ "Hoth" \in {routes[i].origin : i \in 1..Len(routes)}
    /\ result.odds = <<0, 1>>
    /\ result.path = <<>>

(***************************************************************************)
(* C2: scenario A. One route Tatooine-Endor of travel_time 6, autonomy 6,   *)
(* countdown 6, no sightings: the odds are 100 and the path is              *)
(* [Tatooine, Endor], with days [0, 6].                                     *)
(***************************************************************************)
ScenarioA ==
    /\ routes = <<Route("Tatooine", "Endor", 6)>>
    /\ autonomy = 6
    /\ countdown = 6
    /\ bounty_hunters = <<>>

C2_ScenarioA ==
    (Returned /\ ScenarioA) =>
        /\ result.odds = <<100, 1>>
        /\ result.path = <<"Tatooine", "Endor">>
        /\ feasible_paths[1].days = <<0, 6>>

(***************************************************************************)
(* C3: in an itinerary of find_feasible_paths the travel time accumulated   *)
(* since the departure or the last forced refuel never exceeds autonomy.    *)
(***************************************************************************)
C3_AutonomyNeverExceeded ==
    \A i \in 1..Len(feasible_paths) :
        LET e == feasible_paths[i]
        IN  \A j \in 1..Len(e.days) : e.days[j] - e.days[LastRefuel(e, j)] <= autonomy

(***************************************************************************)
(* C4: for a non-empty pool (the accepted base itineraries followed by the  *)
(* rest variants) k_min is the least encounter count of the pool, the odds  *)
(* are those of k_min, and the path is the stops of the first itinerary of  *)
(* the pool, in that order, whose encounter count is k_min.                 *)
(***************************************************************************)
Pool == acceptable_paths \o alternative_paths

LeastEncounters(pool) ==
    CHOOSE k \in {EncounterPairs(pool[i]) : i \in 1..Len(pool)} :
        \A i \in 1..Len(pool) : k <= EncounterPairs(pool[i])

FirstWith(pool, k) ==
    CHOOSE i \in 1..Len(pool) : /\ EncounterPairs(pool[i]) = k
                                /\ \A j \in 1..(i - 1) : EncounterPairs(pool[j]) # k

C4_LeastEncountersFirstInPool ==
    Scored =>
        /\ result.odds = Odds(LeastEncounters(Pool))
        /\ result.path = Pool[FirstWith(Pool, LeastEncounters(Pool))].stops

(***************************************************************************)
(* C5: the odds of a scored pool are 100 when k_min = 0 and satisfy         *)
(* odds * 10^k_min = 100 * 9^k_min when k_min >= 1; they lie in [0, 100]    *)
(* and no smaller k_min gives lower odds.                                   *)
(***************************************************************************)
FracLeq(a, b) == a[1] * b[2] <= b[1] * a[2]

C5_OddsAreGeometric ==
    Scored =>
        LET k == LeastEncounters(all_paths)
            o == result.odds
        IN  /\ o[2] > 0
            /\ k = 0 => o[1] = 100 * o[2]
            /\ k >= 1 => o[1] * Pow(10, k) = 100 * Pow(9, k) * o[2]
            /\ FracLeq(<<0, 1>>, o) /\ FracLeq(o, <<100, 1>>)
            /\ \A j \in 0..k : FracLeq(o, Odds(j))

\* scenario D: the best itinerary of the pool meets two sightings, odds 81
C5_Witness ==
    /\ Scored
    /\ LeastEncounters(all_paths) = 2
    /\ result.odds[1] = 81 * result.odds[2]

(***************************************************************************)
(* C6: every itinerary of find_feasible_paths and every rest variant of     *)
(* find_alternative_paths has as many days as stops, starts at the          *)
(* departure on day 0, and has non-decreasing days.                         *)
(***************************************************************************)
WellFormed(e) ==
    /\ Len(e.stops) = Len(e.days)
    /\ e.stops[1] = departure
    /\ e.days[1] = 0
    /\ NonDecreasing(e.days)

C6_ItinerariesWellFormed ==
    /\ \A i \in 1..Len(feasible_paths) : WellFormed(feasible_paths[i])
    /\ \A i \in 1..Len(alternative_paths) : WellFormed(alternative_paths[i])

\* a base itinerary with a forced refuel and two rest variants of one base
C6_Witness ==
    /\ \E i \in 1..Len(feasible_paths) :
          \E j \in 2..Len(feasible_paths[i].stops) :
              feasible_paths[i].stops[j] = feasible_paths[i].stops[j - 1]
    /\ Len(alternative_paths) >= 2

(***************************************************************************)
(* C7: every itinerary give_me_the_odds scores ends on a day <= countdown;  *)
(* a rest variant is made only of an itinerary with countdown - days[-1]    *)
(* >= 1, and ends exactly one day after it.                                 *)
(***************************************************************************)
\* the entries a step of find_alternative_paths wrote
Written(before, after) ==
    {i \in 1..Len(after) : i > Len(before) \/ after[i] # before[i]}

AlternativeStep == pc = "find_alternative_paths" /\ alt_pos' = alt_pos + 1

C7_ScoredInTime ==
    /\ [](\A i \in 1..Len(all_paths) : Last(all_paths[i].days) <= countdown)
    /\ [][AlternativeStep =>
            LET e == acceptable_paths[alt_pos]
            IN  \A i \in Written(alternative_paths, alternative_paths') :
                    /\ countdown - Last(e.days) >= 1
                    /\ Last(alternative_paths'[i].days) = Last(e.days) + 1]_vars

\* a rest variant was scored and ends on the countdown day itself
C7_Witness ==
    /\ Scored
    /\ alternative_paths # <<>>
    /\ \E i \in 1..Len(all_paths) :
          /\ all_paths[i] \in Range(alternative_paths)
          /\ Last(all_paths[i].days) = countdown

(***************************************************************************)
(* C8: of an accepted itinerary with m distinct non-final stops and         *)
(* countdown - days[-1] >= 1, find_alternative_paths makes exactly m        *)
(* variants, each one stop and one day longer and ending one day later; of  *)
(* an accepted itinerary with no slack it makes none.                       *)
(***************************************************************************)
DistinctNonFinal(e) == Cardinality({e.stops[i] : i \in 1..(Len(e.stops) - 1)})

C8_OneVariantPerDistinctStop ==
    [][AlternativeStep =>
          LET e == acceptable_paths[alt_pos]
              new == Written(alternative_paths, alternative_paths')
          IN  /\ countdown - Last(e.days) = 0 => alternative_paths' = alternative_paths
              /\ countdown - Last(e.days) >= 1 =>
                    /\ Cardinality(new) = DistinctNonFinal(e)
                    /\ \A i \in new :
                          /\ Len(alternative_paths'[i].stops) = Len(e.stops) + 1
                          /\ Len(alternative_paths'[i].days) = Len(e.days) + 1
                          /\ Last(alternative_paths'[i].days) = Last(e.days) + 1]_vars

\* two accepted itineraries had their turn, one with two distinct non-final
\* stops and slack, one without slack
C8_Witness ==
    /\ pc = "find_alternative_paths"
    /\ alt_pos = 3
    /\ \E i \in 1..2 : /\ countdown - Last(acceptable_paths[i].days) >= 1
                       /\ DistinctNonFinal(acceptable_paths[i]) = 2
    /\ \E i \in 1..2 : countdown - Last(acceptable_paths[i].days) = 0

(***************************************************************************)
(* C9: in the Giskard solution the identifiers of the rest variants differ  *)
(* from one another and from every base identifier path_<n>, so the merge   *)
(* replaces no accepted base itinerary and no variant.                      *)
(***************************************************************************)
C9_GiskardIdentifiersDistinct ==
    impl = "Giskard" =>
        /\ \A i \in 1..Len(alternative_paths) : \A j \in 1..Len(feasible_paths) :
              alternative_paths[i].key # feasible_paths[j].key
        /\ Scored => \A i \in 1..Len(acceptable_paths) : acceptable_paths[i] \in Range(all_paths)

(***************************************************************************)
(* C10: of an enumerated path whose hops all have travel_time < autonomy    *)
(* the itinerary has the path itself as stops and the running sums of the   *)
(* travel times as days.                                                    *)
(***************************************************************************)
RECURSIVE RunningSum(_, _)
RunningSum(path, j) ==
    IF j = 1 THEN 0 ELSE RunningSum(path, j - 1) + RouteTime(path[j - 1], path[j])

AllHopsBelowAutonomy(path) ==
    \A h \in 1..(Len(path) - 1) : RouteTime(path[h], path[h + 1]) < autonomy

\* find_feasible_paths has just returned
Simulated == pc = "valid_paths"

C10_ShortHopsKeepThePath ==
    Simulated =>
        \A i \in 1..Len(paths) :
            AllHopsBelowAutonomy(paths[i]) =>
                /\ feasible_paths[i].stops = paths[i]
                /\ feasible_paths[i].days = [j \in 1..Len(paths[i]) |-> RunningSum(paths[i], j)]

\* a path of two hops, each below the autonomy, that together exceed it
C10_Witness ==
    /\ Simulated
    /\ \E i \in 1..Len(paths) :
          /\ Len(paths[i]) = 3
          /\ AllHopsBelowAutonomy(paths[i])
          /\ RunningSum(paths[i], 3) > autonomy

(***************************************************************************)
(* C11: in find_feasible_paths a hop of travel time w is skipped (nothing   *)
(* appended, days and autonomy unchanged) exactly when w > current_autonomy, *)
(* the autonomy left at the moment of the hop; so every appended hop has    *)
(* w <= current_autonomy.                                                   *)
(***************************************************************************)
\* the walk state of find_feasible_paths before hop h of an enumerated path
WalkBefore(G, path, h) ==
    Walk(G, SubSeq(path, 1, h), 1, WalkStart(departure, autonomy), autonomy)

\* the graph find_feasible_paths walks
Graph == create_graph(routes)

C11_SkippedIffAboveRemaining ==
    Simulated =>
        LET G == Graph
        IN  \A i \in 1..Len(paths) : \A h \in 1..(Len(paths[i]) - 1) :
                LET before == WalkBefore(G, paths[i], h)
                    after == WalkHop(G, before, paths[i][h], paths[i][h + 1], autonomy)
                    w == RouteTime(paths[i][h], paths[i][h + 1])
                IN  (after = before) <=> (w > before.current_autonomy)

(***************************************************************************)
(* C12: when an appended hop to v has travel_time equal to autonomy (it     *)
(* leaves current_autonomy 0) the itinerary gets a second, consecutive copy *)
(* of v one day after the arrival at v, later days count that day, and      *)
(* current_autonomy is the configured autonomy again before the next hop;   *)
(* an appended hop of any other travel time adds v once.                    *)
(***************************************************************************)
C12_RefuelExactlyAtZero ==
    Simulated =>
        LET G == Graph
        IN
        \A i \in 1..Len(paths) :
            /\ feasible_paths[i].stops = WalkBefore(G, paths[i], Len(paths[i])).stops
            /\ feasible_paths[i].days = WalkBefore(G, paths[i], Len(paths[i])).days
            /\ \A h \in 1..(Len(paths[i]) - 1) :
                  LET before == WalkBefore(G, paths[i], h)
                      after == WalkHop(G, before, paths[i][h], paths[i][h + 1], autonomy)
                      v == paths[i][h + 1]
                      w == RouteTime(paths[i][h], v)
                      arrive == Last(before.days) + w
                  IN  after # before =>
                        IF w = autonomy
                        THEN /\ after.stops = before.stops \o <<v, v>>
                             /\ after.days = before.days \o <<arrive, arrive + 1>>
                             /\ after.current_autonomy = autonomy
                        ELSE /\ after.stops = Append(before.stops, v)
                             /\ after.days = Append(before.days, arrive)

\* a forced refuel at the middle planet, then a shorter hop to the arrival
C12_Witness ==
    /\ Simulated
    /\ \E i \in 1..Len(paths) :
          /\ Len(paths[i]) = 3
          /\ RouteTime(paths[i][1], paths[i][2]) = autonomy
          /\ RouteTime(paths[i][2], paths[i][3]) < autonomy
          /\ feasible_paths[i].stops = <<paths[i][1], paths[i][2], paths[i][2], paths[i][3]>>
          /\ feasible_paths[i].days[4] = feasible_paths[i].days[2] + 1 + RouteTime(paths[i][2], paths[i][3])

(***************************************************************************)
(* C13: in every rest variant, whatever the iteration order of the set of   *)
(* distinct non-final stops, the rest entry of node X comes right after an  *)
(* occurrence of X, its day is that occurrence's day plus 1, and every      *)
(* later day is the original day plus 1.                                    *)
(***************************************************************************)
\* v is e with a rest at node X put in right after position pos of e
RestsAfter(e, v, X, pos) ==
    /\ e.stops[pos] = X
    /\ v.stops = ListInsert(e.stops, pos, RestMarker(impl, X, 1))
    /\ Len(v.days) = Len(e.days) + 1
    /\ \A q \in 1..pos : v.days[q] = e.days[q]
    /\ v.days[pos + 1] = e.days[pos] + 1
    /\ \A q \in (pos + 1)..Len(e.days) : v.days[q + 1] = e.days[q] + 1

C13_RestFollowsItsStop ==
    [][AlternativeStep =>
          LET e == acceptable_paths[alt_pos]
          IN  \A i \in Written(alternative_paths, alternative_paths') :
                  \E X \in UniqueStops(e.stops) : \E pos \in 1..(Len(e.stops) - 1) :
                      RestsAfter(e, alternative_paths'[i], X, pos)]_vars

(***************************************************************************)
(* C14: in the Millennium-falcon solution the rest entry of node X on day d *)
(* of a rest variant counts as an encounter whenever the sightings hold     *)
(* (planet X, day d): the rest marker carries the planet name of X.         *)
(***************************************************************************)
RoutePlanets == {routes[i].origin : i \in 1..Len(routes)} \cup {routes[i].destination : i \in 1..Len(routes)}

\* the planet a stop of an itinerary is at: X for X itself and for the rest marker of X
PlanetOf(stop) ==
    IF \E X \in RoutePlanets : stop # X /\ stop = RestMarker(impl, X, 1)
    THEN CHOOSE X \in RoutePlanets : stop = RestMarker(impl, X, 1)
    ELSE stop

\* the encounters of an itinerary with every stop, rests included, taken at its planet
EncountersAtPlanets(e) ==
    Cardinality({ij \in (1..Len(e.stops)) \X (1..Len(bounty_hunters)) :
                    /\ bounty_hunters[ij[2]].planet = PlanetOf(e.stops[ij[1]])
                    /\ bounty_hunters[ij[2]].day = e.days[ij[1]]})

C14_RestCountsAsEncounter ==
    (Scored /\ impl = "MillenniumFalcon") =>
        \A i \in 1..Len(all_paths) : k_table[i] = EncountersAtPlanets(all_paths[i])

(***************************************************************************)
(* C15: in the Giskard solution, for fixed graph, parameters and           *)
(* sightings, the odds returned are the same for every iteration order of  *)
(* set(path[:-1]); the order affects only the identifiers of the variants. *)
(***************************************************************************)
\* every alternative_paths the loop over acceptable_paths can build from entry i on
RECURSIVE AlternativeOutcomes(_, _)
AlternativeOutcomes(i, acc) ==
    IF i > Len(acceptable_paths) THEN {acc}
    ELSE LET e == acceptable_paths[i]
         IN  IF CanRest(e, countdown)
             THEN UNION {AlternativeOutcomes(i + 1, AddVariants(impl, e, order, 1, acc)) :
                             order \in Orders(UniqueStops(e.stops))}
             ELSE AlternativeOutcomes(i + 1, acc)

\* the odds give_me_the_odds returns when the loop built alts
OddsWith(alts) ==
    LET pool == DictMerge(acceptable_paths, alts, 1)
        ks == [i \in 1..Len(pool) |-> Encounters(pool[i], bounty_hunters)]
    IN  Odds(MinOf(ks, 1))

C15_GiskardOddsIgnoreSetOrder ==
    (Scored /\ impl = "Giskard") =>
        \A alts \in AlternativeOutcomes(1, <<>>) : OddsWith(alts) = result.odds

(***************************************************************************)
(* C16: whenever give_me_the_odds returns a non-empty path, its first stop *)
(* is the departure, its last stop is the arrival, and every two           *)
(* consecutive stops that name different nodes are joined by an edge of    *)
(* the graph.  A rest marker names the node it rests at.                   *)
(***************************************************************************)
\* an edge of the graph built from the routes joins u and v
Joined(u, v) ==
    \E i \in 1..Len(routes) :
        \/ routes[i].origin = u /\ routes[i].destination = v
        \/ routes[i].origin = v /\ routes[i].destination = u

C16_ReturnedPathIsAWalk ==
    (Returned /\ result.path # <<>>) =>
        LET path == [q \in 1..Len(result.path) |-> PlanetOf(result.path[q])]
        IN  /\ path[1] = departure
            /\ Last(path) = arrival
            /\ \A q \in 1..(Len(path) - 1) :
                   path[q] # path[q + 1] => Joined(path[q], path[q + 1])

====
